---- MODULE Spec2Model ----
(***************************************************************************)
(* State-machine model of the point-ordering engine of tessellate_mk1:     *)
(*   - solve_tsp            (src/src/main.rs)        boundary growth       *)
(*   - solve_tsp_approx     (src/src/hamiltonian.rs) genetic solver        *)
(*   - tour_from_unselected, tour_length, cross_vectors (hamiltonian.rs)   *)
(* Coordinates are kept in half units (x2 = 2*x) so that the 0.5 column    *)
(* offset of generate_lattice stays an integer; a squared threshold is     *)
(* kept times 100 (1.1^2 = 1.21 -> 121).                                   *)
(***************************************************************************)
EXTENDS Integers, Sequences, FiniteSets, TLC

VARIABLES
    pc,                  \* position of the running call
    points,              \* solve_tsp: Vec<(f32,f32)>, in half units
    thr2,                \* solve_tsp: neighbor_distance^2, times 100
    neighbors,           \* solve_tsp: Vec<Vec<usize>>
    current_edge,        \* solve_tsp: usize
    starting_edge,       \* solve_tsp: usize
    edges,               \* solve_tsp: HashMap<usize,usize>
    visited_point_set,   \* solve_tsp: HashSet<usize>
    boundary_point_list, \* solve_tsp: Vec<usize>
    final_path,          \* solve_tsp: Vec<usize>
    order,               \* tour_length: Option<&Vec<usize>>, <<"None">> or <<"Some", vec>>
    close,               \* tour_length: bool
    length,              \* tour_length: the f32 returned
    num_points,          \* tour_from_unselected: usize
    unselected,          \* tour_from_unselected: Vec<usize>
    ordering,            \* tour_from_unselected: the Vec returned
    tours,               \* solve_tsp_approx: Vec<Vec<usize>>
    max_iterations,      \* solve_tsp_approx: u64
    iteration,           \* solve_tsp_approx: generations completed
    best_length,         \* solve_tsp_approx: best_length of the last generation
    prev_best_length,    \* history: best_length of the generation before it
    mutations,           \* history: genes so far that came from neither parent
    result               \* solve_tsp_approx: the Vec returned

tspVars == <<neighbors, current_edge, starting_edge, edges,
             visited_point_set, boundary_point_list, final_path, thr2>>
lenVars == <<order, close, length>>
tourVars == <<num_points, unselected, ordering>>
gaVars == <<tours, max_iterations, iteration, best_length, prev_best_length,
            mutations, result>>

vars == <<pc, points, tspVars, lenVars, tourVars, gaVars>>

\* ------------------------------------------------------------------ bounds
\* The lattices of the boundary-growth runs have at most MaxCells cells.
MaxCells == 9

\* ----------------------------------------------------------------- helpers
Range(s) == {s[i] : i \in 1..Len(s)}

NoDup(s) == \A i, j \in 1..Len(s) : i # j => s[i] # s[j]

Contains(s, x) == \E i \in 1..Len(s) : s[i] = x

\* Vec::iter().position(|p| *p == x): the first index holding x, 0 for None.
Position(s, x) ==
    IF Contains(s, x) THEN CHOOSE i \in 1..Len(s) : s[i] = x /\ \A j \in 1..(i-1) : s[j] # x
    ELSE 0

\* Vec::remove(index), 1-based.
RemoveAt(s, k) == [i \in 1..(Len(s)-1) |-> IF i < k THEN s[i] ELSE s[i+1]]

\* The points a Vec holds are indexed from 0 in the code and the model keeps
\* the code's indices: point i of the code is points[i+1].
NumPoints == Len(points)
Idx == 0..(NumPoints - 1)

\* ---------------------------------------------------------------- lattices
\* generate_lattice(width, height, 1.0): rows of y, columns of x; the odd
\* columns are shifted by 0.5.
GenerateLattice(width, height) ==
    [k \in 1..(width * height) |->
        LET x == (k - 1) % width
            y == (k - 1) \div width
        IN  <<2 * x + (IF x % 2 = 0 THEN 0 ELSE 1), 2 * y>>]

\* The unit-spaced lattice of the end-to-end scenario, in the same order.
UnitLattice(width, height) ==
    [k \in 1..(width * height) |-> <<2 * ((k - 1) % width), 2 * ((k - 1) \div width)>>]

RECURSIVE SortedSeq(_)
SortedSeq(S) == IF S = {} THEN <<>>
                ELSE LET m == CHOOSE x \in S : \A y \in S : x <= y
                     IN  <<m>> \o SortedSeq(S \ {m})

\* filter_points_by_luminance keeps any of the points, in their order.
KeptPoints(pts) ==
    {[i \in 1..Cardinality(S) |-> pts[SortedSeq(S)[i]]] : S \in SUBSET (1..Len(pts))}

GridShapes == {wh \in (1..MaxCells) \X (1..MaxCells) : wh[1] * wh[2] <= MaxCells}

PointSets ==
    UNION {KeptPoints(GenerateLattice(wh[1], wh[2])) \cup KeptPoints(UnitLattice(wh[1], wh[2])) :
              wh \in GridShapes}

\* ------------------------------------------------------- neighbor graph
DistSqHalf(pts, i, j) ==
    LET dx == pts[j+1][1] - pts[i+1][1]
        dy == pts[j+1][2] - pts[i+1][2]
    IN  dx * dx + dy * dy

\* dist_sq <= neighbor_distance_sq, both sides times 100 (dist_sq = d/4).
WithinDistance(pts, t2, i, j) == 25 * DistSqHalf(pts, i, j) <= t2

\* The O(n^2) pair loop: for i in 0..n { for j in i+1..n { push both ways } }.
RECURSIVE NeighborLoop(_, _, _, _, _)
NeighborLoop(pts, t2, i, j, nb) ==
    LET n == Len(pts) IN
    IF i >= n THEN nb
    ELSE IF j >= n THEN NeighborLoop(pts, t2, i + 1, i + 2, nb)
    ELSE IF WithinDistance(pts, t2, i, j)
         THEN NeighborLoop(pts, t2, i, j + 1,
                  [nb EXCEPT ![i] = Append(@, j), ![j] = Append(@, i)])
         ELSE NeighborLoop(pts, t2, i, j + 1, nb)

BuildNeighbors(pts, t2) ==
    NeighborLoop(pts, t2, 0, 1, [k \in 0..(Len(pts) - 1) |-> <<>>])

\* The variables of a call that is not running.
NoLength == [panic |-> FALSE, whole |-> 0, root2 |-> 0]
IdleLen == order = <<"None">> /\ close = FALSE /\ length = NoLength
IdleTour == num_points = 0 /\ unselected = <<>> /\ ordering = <<>>
IdleApprox ==
    /\ tours = <<>>
    /\ max_iterations = 0
    /\ iteration = 0
    /\ best_length = NoLength
    /\ prev_best_length = NoLength
    /\ mutations = 0
    /\ result = <<>>
IdleTsp ==
    /\ thr2 = 0
    /\ neighbors = <<>>
    /\ current_edge = 0
    /\ starting_edge = 0
    /\ edges = <<>>
    /\ visited_point_set = {}
    /\ boundary_point_list = <<>>
    /\ final_path = <<>>

\* --------------------------------------------------------------- solve_tsp
\* The nested scan for two neighbors of the seed that are neighbors of each
\* other: the first (a, b) in scan order, <<>> when the scan ends without one.
\* Mutant: the two neighbors of the seed need not be neighbors of each other.
TrianglePairs_NoAdjacency(nb, ce) ==
    {<<ia, ib>> \in (1..Len(nb[ce])) \X (1..Len(nb[ce])) :
        /\ nb[ce][ia] # ce
        /\ nb[ce][ib] # ce
        /\ nb[ce][ia] # nb[ce][ib]}

TrianglePairs(nb, ce) ==
    {<<ia, ib>> \in (1..Len(nb[ce])) \X (1..Len(nb[ce])) :
        /\ Contains(nb[nb[ce][ia]], nb[ce][ib])
        /\ nb[ce][ia] # ce
        /\ nb[ce][ib] # ce
        /\ nb[ce][ia] # nb[ce][ib]}

FirstTriangle(nb, ce) ==
    IF TrianglePairs(nb, ce) = {} THEN <<>>
    ELSE LET first == CHOOSE pr \in TrianglePairs(nb, ce) :
                        \A q \in TrianglePairs(nb, ce) :
                            pr[1] < q[1] \/ (pr[1] = q[1] /\ pr[2] <= q[2])
         IN  <<nb[ce][first[1]], nb[ce][first[2]]>>

\* Mutant: the visited test of the common-neighbor scan is left out.
CommonNeighbors_NoVisitedTest(nb, vis, edge_start_point, edge_end_point) ==
    SelectSeq(nb[edge_start_point], LAMBDA pt : Contains(nb[edge_end_point], pt))

\* The unvisited neighbors of the edge's start that its end has too, in the
\* order of the start's neighbor list.
CommonNeighbors(nb, vis, edge_start_point, edge_end_point) ==
    SelectSeq(nb[edge_start_point],
              LAMBDA pt : pt \notin vis /\ Contains(nb[edge_end_point], pt))

\* edge_can_grow of the re-evaluation loop.
EdgeCanGrow(nb, ed, vis, p) ==
    \E k \in 1..Len(nb[p]) : Contains(nb[ed[p]], nb[p][k]) /\ nb[p][k] \notin vis

\* One pass of the re-evaluation loop for p: drop p from the boundary when its
\* edge cannot grow and p is (still) listed.
DropIfStuck(nb, ed, vis, bl, p) ==
    IF ~EdgeCanGrow(nb, ed, vis, p) /\ Position(bl, p) # 0
    THEN RemoveAt(bl, Position(bl, p))
    ELSE bl

\* edges.get_mut(start) / insert, then edges.insert(new_pt, end).
SpliceEdges(ed, edge_start_point, new_pt, edge_end_point) ==
    (new_pt :> edge_end_point) @@
    (IF edge_start_point \in DOMAIN ed
     THEN [ed EXCEPT ![edge_start_point] = new_pt]
     ELSE (edge_start_point :> new_pt) @@ ed)

\* The three edges of the first loop.
TriangleEdges(ce, a, b) == (ce :> a) @@ (a :> b) @@ (b :> ce)

\* while boundary_point_list.len() > 2 && boundary_point_list.len() <= points.len()
GrowCondition(bl, n) == Len(bl) > 2 /\ Len(bl) <= n

\* random::<usize>() % points.len() on an empty Vec divides by zero.
TspStart ==
    /\ pc = "tsp_start"
    /\ IF NumPoints = 0
       THEN /\ pc' = "panic"
            /\ UNCHANGED <<neighbors, current_edge>>
       ELSE /\ \E r \in Idx : current_edge' = r
            /\ neighbors' = BuildNeighbors(points, thr2)
            /\ pc' = "tsp_seed"
    /\ UNCHANGED <<lenVars, tourVars, gaVars, points, thr2, starting_edge, edges, visited_point_set,
                   boundary_point_list, final_path>>

\* while neighbors[current_edge].len() < 3 { current_edge = random % len }
TspSeedRetry ==
    /\ pc = "tsp_seed"
    /\ Len(neighbors[current_edge]) < 3
    /\ \E r \in Idx : current_edge' = r
    /\ UNCHANGED <<lenVars, tourVars, gaVars, pc, points, thr2, neighbors, starting_edge, edges,
                   visited_point_set, boundary_point_list, final_path>>

TspSeedFound ==
    /\ pc = "tsp_seed"
    /\ ~(Len(neighbors[current_edge]) < 3)
    /\ pc' = "tsp_triangle"
    /\ UNCHANGED <<lenVars, tourVars, gaVars, points, thr2, neighbors, current_edge, starting_edge, edges,
                   visited_point_set, boundary_point_list, final_path>>

\* 'outer loop, no pair for this seed: re-pick the seed.
TspTriangleRetry ==
    /\ pc = "tsp_triangle"
    /\ FirstTriangle(neighbors, current_edge) = <<>>
    /\ \E r \in Idx : current_edge' = r
    /\ UNCHANGED <<lenVars, tourVars, gaVars, pc, points, thr2, neighbors, starting_edge, edges,
                   visited_point_set, boundary_point_list, final_path>>

\* break 'outer, the assertions, and the first loop of three.
TspTriangleFound ==
    /\ pc = "tsp_triangle"
    /\ FirstTriangle(neighbors, current_edge) # <<>>
    /\ LET nbr_a == FirstTriangle(neighbors, current_edge)[1]
           nbr_b == FirstTriangle(neighbors, current_edge)[2]
       IN  IF current_edge = nbr_a \/ current_edge = nbr_b \/ nbr_a = nbr_b
           THEN /\ pc' = "panic"
                /\ UNCHANGED <<starting_edge, edges, visited_point_set,
                               boundary_point_list>>
           ELSE /\ starting_edge' = current_edge
                /\ edges' = TriangleEdges(current_edge, nbr_a, nbr_b)
                /\ visited_point_set' = {current_edge, nbr_a, nbr_b}
                /\ boundary_point_list' = <<current_edge, nbr_a, nbr_b>>
                /\ pc' = "tsp_grow"
    /\ UNCHANGED <<lenVars, tourVars, gaVars, points, thr2, neighbors, current_edge, final_path>>

\* Mutant: the picked vertex stays on the boundary when its edge has no common
\* neighbor.
TspGrowRemove_NoRemove ==
    /\ pc = "tsp_grow"
    /\ GrowCondition(boundary_point_list, NumPoints)
    /\ \E k \in 1..Len(boundary_point_list) :
        LET edge_start_point == boundary_point_list[k]
            edge_end_point == edges[edge_start_point]
        IN  /\ Len(CommonNeighbors(neighbors, visited_point_set,
                                   edge_start_point, edge_end_point)) < 1
            /\ current_edge' = edge_start_point
    /\ UNCHANGED <<lenVars, tourVars, gaVars, pc, points, thr2, neighbors, starting_edge, edges,
                   visited_point_set, boundary_point_list, final_path>>

\* One iteration of the growth loop whose picked edge has no common neighbor.
TspGrowRemove ==
    /\ pc = "tsp_grow"
    /\ GrowCondition(boundary_point_list, NumPoints)
    /\ \E k \in 1..Len(boundary_point_list) :
        LET edge_start_point == boundary_point_list[k]
            edge_end_point == edges[edge_start_point]
        IN  /\ Len(CommonNeighbors(neighbors, visited_point_set,
                                   edge_start_point, edge_end_point)) < 1
            /\ current_edge' = edge_start_point
            /\ boundary_point_list' =
                  RemoveAt(boundary_point_list,
                           Position(boundary_point_list, edge_start_point))
    /\ UNCHANGED <<lenVars, tourVars, gaVars, pc, points, thr2, neighbors, starting_edge, edges,
                   visited_point_set, final_path>>

\* One iteration of the growth loop that splices new_pt into the picked edge.
TspGrowSplice ==
    /\ pc = "tsp_grow"
    /\ GrowCondition(boundary_point_list, NumPoints)
    /\ \E k \in 1..Len(boundary_point_list) :
        \E edge_start_point \in {boundary_point_list[k]} :
        \E edge_end_point \in {edges[edge_start_point]} :
        \E common_neighbors \in {CommonNeighbors(neighbors, visited_point_set,
                                                 edge_start_point, edge_end_point)} :
            /\ ~(Len(common_neighbors) < 1)
            /\ \E new_pt \in {common_neighbors[1]} :
               \E ed \in {SpliceEdges(edges, edge_start_point, new_pt, edge_end_point)} :
               \E vis \in {visited_point_set \cup {new_pt}} :
               \E bl0 \in {Append(boundary_point_list, new_pt)} :
               \E bl1 \in {DropIfStuck(neighbors, ed, vis, bl0, edge_start_point)} :
               \E bl2 \in {DropIfStuck(neighbors, ed, vis, bl1, new_pt)} :
               \E bl3 \in {DropIfStuck(neighbors, ed, vis, bl2, edge_end_point)} :
                   /\ current_edge' = edge_start_point
                   /\ edges' = ed
                   /\ visited_point_set' = vis
                   /\ boundary_point_list' = bl3
    /\ UNCHANGED <<lenVars, tourVars, gaVars, pc, points, thr2, neighbors, starting_edge, final_path>>

\* The growth loop ends; current_edge = edges[&starting_edge].
TspGrowExit ==
    /\ pc = "tsp_grow"
    /\ ~GrowCondition(boundary_point_list, NumPoints)
    /\ current_edge' = edges[starting_edge]
    /\ final_path' = <<>>
    /\ pc' = "tsp_extract"
    /\ UNCHANGED <<lenVars, tourVars, gaVars, points, thr2, neighbors, starting_edge, edges,
                   visited_point_set, boundary_point_list>>

\* while current_edge != starting_edge { push; current_edge = edges[..] }
\* The length guard only keeps a walk that misses the seed finite; on a cycle
\* through the seed the walk ends before it binds.
TspExtractStep ==
    /\ pc = "tsp_extract"
    /\ current_edge # starting_edge
    /\ Len(final_path) <= NumPoints
    /\ final_path' = Append(final_path, current_edge)
    /\ current_edge' = edges[current_edge]
    /\ UNCHANGED <<lenVars, tourVars, gaVars, pc, points, thr2, neighbors, starting_edge, edges,
                   visited_point_set, boundary_point_list>>

\* Mutant: the path is closed by pushing its first index again.
TspReturn_Closed ==
    /\ pc = "tsp_extract"
    /\ current_edge = starting_edge
    /\ final_path' = IF Len(final_path) > 0 THEN Append(final_path, final_path[1])
                     ELSE final_path
    /\ pc' = "tsp_done"
    /\ UNCHANGED <<lenVars, tourVars, gaVars, points, thr2, neighbors, current_edge,
                   starting_edge, edges, visited_point_set, boundary_point_list>>

TspReturn ==
    /\ pc = "tsp_extract"
    /\ current_edge = starting_edge
    /\ pc' = "tsp_done"
    /\ UNCHANGED <<lenVars, tourVars, gaVars, points, thr2, neighbors, current_edge, starting_edge, edges,
                   visited_point_set, boundary_point_list, final_path>>

\* Neighbor thresholds 1.1 and 1.5, squared, times 100.
Thresholds == {121, 225}

TspInit ==
    /\ pc = "tsp_start"
    /\ points \in PointSets
    /\ thr2 \in Thresholds
    /\ neighbors = <<>>
    /\ current_edge = 0
    /\ starting_edge = 0
    /\ edges = <<>>
    /\ visited_point_set = {}
    /\ boundary_point_list = <<>>
    /\ final_path = <<>>
    /\ IdleLen /\ IdleTour /\ IdleApprox

TspNext ==
    \/ TspStart
    \/ TspSeedRetry
    \/ TspSeedFound
    \/ TspTriangleRetry
    \/ TspTriangleFound
    \/ TspGrowRemove
    \/ TspGrowSplice
    \/ TspGrowExit
    \/ TspExtractStep
    \/ TspReturn

SpecTsp == TspInit /\ [][TspNext]_vars

\* The call keeps running, and a random pick that is tried again and again
\* takes each of its values again and again.
TspPickFairness ==
    \A r \in 0..(MaxCells - 1) :
        /\ SF_vars(TspSeedRetry /\ current_edge' = r)
        /\ SF_vars(TspTriangleRetry /\ current_edge' = r)

\* The inputs of the fair runs: the 3 x 3 unit lattice with threshold 1.1,
\* three points in a row (no vertex of degree 3), and a 3 x 2 block of the
\* unit lattice with threshold 1.5 (triangles everywhere).
FairTspInputs ==
    { << << <<0, 0>>, <<2, 0>>, <<4, 0>>,
            <<0, 2>>, <<2, 2>>, <<4, 2>>,
            <<0, 4>>, <<2, 4>>, <<4, 4>> >>, 121 >>,
      << << <<0, 0>>, <<2, 0>>, <<4, 0>> >>, 121 >>,
      << << <<0, 0>>, <<2, 0>>, <<4, 0>>,
            <<0, 2>>, <<2, 2>>, <<4, 2>> >>, 225 >> }

FairTspInit ==
    /\ pc = "tsp_start"
    /\ \E inp \in FairTspInputs : points = inp[1] /\ thr2 = inp[2]
    /\ neighbors = <<>>
    /\ current_edge = 0
    /\ starting_edge = 0
    /\ edges = <<>>
    /\ visited_point_set = {}
    /\ boundary_point_list = <<>>
    /\ final_path = <<>>
    /\ IdleLen /\ IdleTour /\ IdleApprox

FairSpecTsp == FairTspInit /\ [][TspNext]_vars /\ WF_vars(TspNext) /\ TspPickFairness

\* The call keeps running: a step that can be taken is taken.  Nothing is
\* assumed about the values of the random picks.
RunSpecTsp == TspInit /\ [][TspNext]_vars /\ WF_vars(TspNext)

\* ------------------------------------------------------------- tour_length
\* A length is whole + root2 * sqrt(2), exactly; panic marks a failed call.
Len2(w, r) == [panic |-> FALSE, whole |-> w, root2 |-> r]
PanicLength == [panic |-> TRUE, whole |-> 0, root2 |-> 0]

LenAdd(x, y) == Len2(x.whole + y.whole, x.root2 + y.root2)

\* x < y for a + b*sqrt(2) < c + d*sqrt(2), decided on p = a - c, q = d - b.
LenLess(x, y) ==
    LET p == x.whole - y.whole
        q == y.root2 - x.root2
    IN  IF p < 0 /\ q >= 0 THEN TRUE
        ELSE IF p >= 0 /\ q <= 0 THEN FALSE
        ELSE IF p >= 0 THEN p * p < 2 * q * q
        ELSE p * p > 2 * q * q

\* ((dx*dx) + (dy*dy)).sqrt() for the squares the modelled point sets give.
SqrtOf(d2) ==
    IF \E k \in 0..d2 : k * k = d2
    THEN Len2(CHOOSE k \in 0..d2 : k * k = d2, 0)
    ELSE Len2(0, CHOOSE k \in 0..d2 : 2 * k * k = d2)

SegmentLength(pts, a, b) ==
    LET dx == pts[b+1][1] - pts[a+1][1]
        dy == pts[b+1][2] - pts[a+1][2]
    IN  SqrtOf((dx * dx) + (dy * dy))

\* for i in 0..order.len()-1 { length += |points[order[i]] - points[order[i+1]]| }
RECURSIVE LengthLoop(_, _, _, _)
LengthLoop(pts, ord, i, acc) ==
    IF i >= Len(ord) THEN acc
    ELSE IF ord[i] >= Len(pts) \/ ord[i+1] >= Len(pts) THEN PanicLength
    ELSE LengthLoop(pts, ord, i + 1, LenAdd(acc, SegmentLength(pts, ord[i], ord[i+1])))

\* Mutant: the order is closed with its last index instead of its first.
ClosedOrder_Last(ord, cl) == IF cl THEN Append(ord, ord[Len(ord)]) ELSE ord

\* order.push(*order.first().unwrap()) when close.
ClosedOrder(ord, cl) == IF cl THEN Append(ord, ord[1]) ELSE ord

TourLength(pts, opt_order, cl) ==
    IF ~(Len(pts) > 1) THEN PanicLength
    ELSE LET ord0 == IF opt_order[1] = "Some" THEN opt_order[2]
                     ELSE [i \in 1..Len(pts) |-> i - 1]
         IN  IF Len(ord0) = 0 THEN PanicLength
             ELSE LengthLoop(pts, ClosedOrder(ord0, cl), 1, Len2(0, 0))

\* ---------------------------------------------------- tour_from_unselected
\* Mutant: the drawn index is read from the pool and left in it.
RECURSIVE DrawLoop_NoRemove(_, _, _, _)
DrawLoop_NoRemove(pool, uns, i, acc) ==
    IF i > Len(uns) THEN [panic |-> FALSE, ordering |-> acc]
    ELSE IF Len(pool) = 0 THEN [panic |-> TRUE, ordering |-> acc]
    ELSE LET k == (uns[i] % Len(pool)) + 1
         IN  DrawLoop_NoRemove(pool, uns, i + 1, Append(acc, pool[k]))

\* points.remove(idx % points.len()) for each idx; idx % 0 panics.
RECURSIVE DrawLoop(_, _, _, _)
DrawLoop(pool, uns, i, acc) ==
    IF i > Len(uns) THEN [panic |-> FALSE, ordering |-> acc]
    ELSE IF Len(pool) = 0 THEN [panic |-> TRUE, ordering |-> acc]
    ELSE LET k == (uns[i] % Len(pool)) + 1
         IN  DrawLoop(RemoveAt(pool, k), uns, i + 1, Append(acc, pool[k]))

TourFromUnselected(n, uns) == DrawLoop([i \in 1..n |-> i - 1], uns, 1, <<>>)

\* -------------------------------------------------------- solve_tsp_approx
NumPaths == 3
MaxIterations == 2
MaxDraw == 1
MaxMutations == 1

MinOf(a, b) == IF a < b THEN a ELSE b

\* The scan for the two best: best/second start at tours[0]/tours[1], then
\* every idx in 2..tours.len() is compared with strict <.
RECURSIVE EliteScan(_, _, _, _)
EliteScan(pts, ts, idx, st) ==
    IF idx >= Len(ts) THEN st
    ELSE LET tour_len == TourLength(pts, <<"Some", ts[idx+1]>>, TRUE)
         IN  IF LenLess(tour_len, st.best_length)
             THEN EliteScan(pts, ts, idx + 1,
                      [best_idx |-> idx, best_length |-> tour_len,
                       second_idx |-> st.best_idx, second_length |-> st.best_length])
             ELSE IF LenLess(tour_len, st.second_length)
             THEN EliteScan(pts, ts, idx + 1,
                      [st EXCEPT !.second_idx = idx, !.second_length = tour_len])
             ELSE EliteScan(pts, ts, idx + 1, st)

SelectElites(pts, ts) ==
    EliteScan(pts, ts, 2,
        [best_idx |-> 0, best_length |-> TourLength(pts, <<"Some", ts[1]>>, TRUE),
         second_idx |-> 1, second_length |-> TourLength(pts, <<"Some", ts[2]>>, TRUE)])

\* Genes of res that are neither parent's: they can only be mutations.
Mutated(res, p, q) == Cardinality({i \in DOMAIN res : res[i] # p[i] /\ res[i] # q[i]})

RECURSIVE MutatedTotal(_, _, _, _)
MutatedTotal(children, p, q, k) ==
    IF k > Len(children) THEN 0
    ELSE Mutated(children[k], p, q) + MutatedTotal(children, p, q, k + 1)

\* Every res cross_vectors can return with at most `budget` such genes: gene i
\* is a random index % num_points, or p[i], or q[i].
CrossVectors(p, q, n, budget) ==
    {res \in [1..MinOf(Len(p), Len(q)) -> 0..(n - 1)] : Mutated(res, p, q) <= budget}

\* Mutant: the second elite is pushed twice, the best one never.
NextTours_SecondTwice(ts, el, children) ==
    <<ts[el.second_idx + 1], ts[el.second_idx + 1]>> \o children

\* next_tours: the two elites, then num_paths - 2 crosses of them.
NextTours(ts, el, children) ==
    <<ts[el.best_idx + 1], ts[el.second_idx + 1]>> \o children

\* The point sets of the genetic runs: the unit square of test_sanity, a
\* 3 x 4 rectangle (all six distances whole), and a single point.
UnitSquare == << <<0, 0>>, <<1, 0>>, <<0, 1>>, <<1, 1>> >>
Rectangle == << <<0, 0>>, <<3, 0>>, <<0, 4>>, <<3, 4>> >>
ApproxPointSets == {UnitSquare, Rectangle, << <<0, 0>> >>}

ApproxInit ==
    /\ pc = "ga_populate"
    /\ points \in ApproxPointSets
    /\ max_iterations \in 0..MaxIterations
    /\ tours = <<>>
    /\ iteration = 0
    /\ best_length = NoLength
    /\ prev_best_length = NoLength
    /\ mutations = 0
    /\ result = <<>>
    /\ IdleTsp /\ IdleLen /\ IdleTour

\* One pass of the loop that makes the candidate tours.
ApproxAddTour ==
    /\ pc = "ga_populate"
    /\ Len(tours) < NumPaths
    /\ \E raw \in [1..Len(points) -> 0..MaxDraw] :
          tours' = Append(tours, TourFromUnselected(Len(points), raw).ordering)
    /\ pc' = IF Len(tours) + 1 = NumPaths THEN "ga_loop" ELSE "ga_populate"
    /\ UNCHANGED <<points, tspVars, lenVars, tourVars, max_iterations, iteration,
                   best_length, prev_best_length, mutations, result>>

\* tour_length asserts points.len() > 1.
ApproxPanic ==
    /\ pc = "ga_loop"
    /\ iteration < max_iterations
    /\ ~(Len(points) > 1)
    /\ pc' = "panic"
    /\ UNCHANGED <<points, tspVars, lenVars, tourVars, gaVars>>

\* One generation: the scan, the two elites, the crosses.
ApproxGeneration ==
    /\ pc = "ga_loop"
    /\ iteration < max_iterations
    /\ Len(points) > 1
    /\ \E el \in {SelectElites(points, tours)} :
       \E p \in {tours[el.best_idx + 1]} :
       \E q \in {tours[el.second_idx + 1]} :
       \E children \in [1..(NumPaths - 2) ->
                          CrossVectors(p, q, Len(points), MaxMutations - mutations)] :
       \E used \in {MutatedTotal(children, p, q, 1)} :
          /\ used <= MaxMutations - mutations
          /\ mutations' = mutations + used
          /\ tours' = NextTours(tours, el, children)
          /\ best_length' = el.best_length
          /\ prev_best_length' = best_length
    /\ iteration' = iteration + 1
    /\ UNCHANGED <<pc, points, tspVars, lenVars, tourVars, max_iterations, result>>

\* tours[0].clone()
ApproxReturn ==
    /\ pc = "ga_loop"
    /\ iteration = max_iterations
    /\ result' = tours[1]
    /\ pc' = "ga_done"
    /\ UNCHANGED <<points, tspVars, lenVars, tourVars, tours, max_iterations,
                   iteration, best_length, prev_best_length, mutations>>

ApproxNext ==
    \/ ApproxAddTour
    \/ ApproxPanic
    \/ ApproxGeneration
    \/ ApproxReturn

SpecApprox == ApproxInit /\ [][ApproxNext]_vars

\* ------------------------------------------- calls of the pure functions
MaxPts == 3
MaxOrderLen == 4
MaxN == 3
MaxUnselectedLen == 4
MaxRaw == 4

SeqsUpTo(S, n) == UNION {[1..k -> S] : k \in 0..n}

\* Three corners of the unit square of the crate's tests: they are at
\* distances 0, 1 and sqrt(2) of each other.
Corners == {<<0, 0>>, <<1, 0>>, <<1, 1>>}

LenInit ==
    /\ pc = "len_call"
    /\ points \in SeqsUpTo(Corners, MaxPts)
    /\ order \in {<<"None">>} \cup {<<"Some", o>> : o \in SeqsUpTo(0..(MaxPts - 1), MaxOrderLen)}
    /\ close \in BOOLEAN
    /\ length = NoLength
    /\ IdleTsp /\ IdleTour /\ IdleApprox

\* tour_length(points, order, close) returns.
LenReturn ==
    /\ pc = "len_call"
    /\ ~TourLength(points, order, close).panic
    /\ length' = TourLength(points, order, close)
    /\ pc' = "len_done"
    /\ UNCHANGED <<points, tspVars, tourVars, gaVars, order, close>>

\* tour_length(points, order, close) panics: the assertion, the unwrap of an
\* empty order's first, or an index outside points.
LenPanic ==
    /\ pc = "len_call"
    /\ TourLength(points, order, close).panic
    /\ pc' = "panic"
    /\ UNCHANGED <<points, tspVars, tourVars, gaVars, lenVars>>

LenNext == LenReturn \/ LenPanic

SpecLen == LenInit /\ [][LenNext]_vars

TourInit ==
    /\ pc = "tour_call"
    /\ points = <<>>
    /\ num_points \in 0..MaxN
    /\ unselected \in SeqsUpTo(0..MaxRaw, MaxUnselectedLen)
    /\ ordering = <<>>
    /\ IdleTsp /\ IdleLen /\ IdleApprox

\* tour_from_unselected(num_points, unselected) returns.
TourReturn ==
    /\ pc = "tour_call"
    /\ ~TourFromUnselected(num_points, unselected).panic
    /\ ordering' = TourFromUnselected(num_points, unselected).ordering
    /\ pc' = "tour_done"
    /\ UNCHANGED <<points, tspVars, lenVars, gaVars, num_points, unselected>>

\* idx % points.len() with the pool empty.
TourPanic ==
    /\ pc = "tour_call"
    /\ TourFromUnselected(num_points, unselected).panic
    /\ pc' = "panic"
    /\ UNCHANGED <<points, tspVars, lenVars, gaVars, tourVars>>

TourNext == TourReturn \/ TourPanic

SpecTour == TourInit /\ [][TourNext]_vars

\* ------------------------------------------------ properties of solve_tsp
AreNeighbors(a, b) == Contains(neighbors[a], b)

RECURSIVE Iterate(_, _, _)
Iterate(f, x, k) == IF k = 0 THEN x ELSE Iterate(f, f[x], k - 1)

\* f is one directed cycle through exactly the vertices of S, seen from x.
IsSingleCycle(f, S, x) ==
    /\ DOMAIN f = S
    /\ \A v \in S : f[v] \in S
    /\ x \in S
    /\ {Iterate(f, x, k) : k \in 0..(Cardinality(S) - 1)} = S
    /\ Iterate(f, x, Cardinality(S)) = x

\* C1: whenever solve_tsp returns, the returned path holds no index twice,
\* every index of it is in 0..points.len(), and it is at most points.len() long.
C1_PathIsSimple ==
    pc = "tsp_done" =>
        /\ NoDup(final_path)
        /\ Range(final_path) \subseteq Idx
        /\ Len(final_path) <= NumPoints

\* A call that returned after growing the first loop by at least two points.
C1_Witness ==
    /\ pc = "tsp_done"
    /\ Len(final_path) >= 4
    /\ Cardinality(visited_point_set) < NumPoints

\* C2: the returned path covers exactly the visited subset, the seed
\* included, each visited index once.
C2_PathCoversVisited ==
    pc = "tsp_done" =>
        /\ Range(final_path) = visited_point_set
        /\ NoDup(final_path)

\* C3: the seed selection and the triangle search never loop forever: the call
\* leaves them (with a triangle or with a failure) after finitely many picks.
C3_SearchEnds == <>(pc \notin {"tsp_start", "tsp_seed", "tsp_triangle"})

\* The 3 x 3 unit-spaced lattice with neighbor threshold 1.1.
Lattice3x3 ==
    << <<0, 0>>, <<2, 0>>, <<4, 0>>,
       <<0, 2>>, <<2, 2>>, <<4, 2>>,
       <<0, 4>>, <<2, 4>>, <<4, 4>> >>
IsLatticeScenario == points = Lattice3x3 /\ thr2 = 121

C10_EdgesAreOneCycle ==
    pc \in {"tsp_grow", "tsp_extract", "tsp_done"} =>
        /\ IsSingleCycle(edges, visited_point_set, starting_edge)
        /\ \A v \in visited_point_set : AreNeighbors(v, edges[v])
        /\ pc # "tsp_grow" =>
              /\ Len(final_path) < Cardinality(visited_point_set)
              /\ \A i \in 1..Len(final_path) :
                    final_path[i] = Iterate(edges, starting_edge, i)
              /\ current_edge = Iterate(edges, starting_edge, Len(final_path) + 1)
        /\ pc = "tsp_done" =>
              /\ Len(final_path) = Cardinality(visited_point_set) - 1
              /\ \A i \in 1..(Len(final_path) - 1) :
                    AreNeighbors(final_path[i], final_path[i+1])

\* The growth loop is running on a cycle it has already grown twice.
C10_Witness ==
    /\ pc = "tsp_grow"
    /\ Cardinality(visited_point_set) >= 5
    /\ Len(boundary_point_list) > 2

\* What is left to do in the growth loop: every unvisited point can cost one
\* splice and one later removal, every listed vertex one removal.
GrowMeasure ==
    2 * (NumPoints - Cardinality(visited_point_set)) + Len(boundary_point_list)

\* The iteration took the picked vertex off the boundary list and visited
\* nothing.
RemovedPicked ==
    /\ visited_point_set' = visited_point_set
    /\ Position(boundary_point_list, current_edge') # 0
    /\ boundary_point_list' =
          RemoveAt(boundary_point_list,
                   Position(boundary_point_list, current_edge'))

\* The iteration marked exactly one new point visited.
VisitedOneMore ==
    \E u \in Idx \ visited_point_set :
        visited_point_set' = visited_point_set \cup {u}

\* C11: once the first triangle exists the growth loop ends whatever the
\* random boundary picks are: each iteration either takes the picked vertex
\* off the boundary list or marks exactly one new point visited, a vertex
\* enters the boundary list only while it is unvisited (so never twice), the
\* boundary list stays a duplicate-free subset of the visited set, and after
\* the loop the boundary holds at most 2 vertices or every point is visited.
C11_GrowthLoopEnds ==
    /\ [](pc \in {"tsp_grow", "tsp_extract", "tsp_done"} =>
            /\ NoDup(boundary_point_list)
            /\ Range(boundary_point_list) \subseteq visited_point_set
            /\ visited_point_set \subseteq Idx)
    /\ [](pc \in {"tsp_extract", "tsp_done"} =>
            \/ Len(boundary_point_list) <= 2
            \/ visited_point_set = Idx)
    /\ [][/\ \A p \in Range(boundary_point_list') \ Range(boundary_point_list) :
                p \notin visited_point_set
          /\ (pc = "tsp_grow" /\ pc' = "tsp_grow") =>
                /\ RemovedPicked \/ VisitedOneMore
                /\ GrowMeasure' < GrowMeasure
                /\ GrowMeasure' >= 0]_vars
    /\ (pc = "tsp_grow" ~> pc = "tsp_extract")

\* The growth loop has ended with points left unvisited, after splices and
\* removals, on a boundary of at most 2 vertices.
C11_Witness ==
    /\ pc = "tsp_extract"
    /\ final_path = <<>>
    /\ Cardinality(visited_point_set) >= 5
    /\ visited_point_set # Idx
    /\ Len(boundary_point_list) <= 2

\* ----------------------------------------- properties of solve_tsp_approx
ClosedLength(t) == TourLength(points, <<"Some", t>>, TRUE)

IsPermutation(t, n) == Len(t) = n /\ Range(t) = 0..(n - 1)

\* C5: in every generation the two elites are the two candidates of the whole
\* population with the lowest closed lengths, best_idx the lowest (the first
\* seen on ties).
C5_ElitesAreTwoLowest ==
    (pc = "ga_loop" /\ iteration < max_iterations /\ Len(points) > 1) =>
        LET el == SelectElites(points, tours)
            L(j) == ClosedLength(tours[j + 1])
            All == 0..(Len(tours) - 1)
        IN  /\ \A j \in All : ~LenLess(L(j), L(el.best_idx))
            /\ \A j \in All : L(j) = L(el.best_idx) => el.best_idx <= j
            /\ el.second_idx # el.best_idx
            /\ \A j \in All \ {el.best_idx} : ~LenLess(L(j), L(el.second_idx))

\* C6: on the unit square the call does not panic and returns a permutation
\* of {0,1,2,3}.
C6_SquareGivesPermutation ==
    points = UnitSquare =>
        /\ pc # "panic"
        /\ pc = "ga_done" => IsPermutation(result, 4)

\* C7: the best length is non-increasing from one generation to the next, and
\* slot 0 of the new population holds the best elite, unchanged in length.
C7_BestNeverIncreases ==
    (pc \in {"ga_loop", "ga_done"} /\ iteration >= 1) =>
        /\ ClosedLength(tours[1]) = best_length
        /\ iteration >= 2 => ~LenLess(prev_best_length, best_length)

\* Two generations ran and the second found a strictly shorter best tour.
C7_Witness ==
    /\ pc = "ga_loop"
    /\ iteration >= 2
    /\ LenLess(best_length, prev_best_length)

\* ------------------------------------- properties of tour_from_unselected
\* The k-th (from 0) smallest element of S.
KthSmallest(S, k) == CHOOSE x \in S : Cardinality({y \in S : y < x}) = k

\* C8: with num_points >= 1 and exactly num_points raw values the call does
\* not meet an empty pool and returns every index of 0..num_points once, the
\* i-th being entry (unselected[i] mod pool size) of the ascending pool of the
\* indices not drawn before; [0,0,0] gives [0,1,2] and [2,1,0] gives [2,1,0].
C8_TourIsPermutation ==
    (num_points >= 1 /\ Len(unselected) = num_points /\ pc # "tour_call") =>
        /\ pc = "tour_done"
        /\ IsPermutation(ordering, num_points)
        /\ \A i \in 1..num_points :
              LET pool == (0..(num_points - 1)) \ {ordering[j] : j \in 1..(i - 1)}
              IN  /\ Cardinality(pool) = num_points - i + 1
                  /\ ordering[i] = KthSmallest(pool, unselected[i] % Cardinality(pool))
        /\ unselected = <<0, 0, 0>> => ordering = <<0, 1, 2>>
        /\ unselected = <<2, 1, 0>> => ordering = <<2, 1, 0>>

\* A call with three raw values that all wrap around the shrinking pool.
C8_Witness ==
    /\ pc = "tour_done"
    /\ num_points = 3
    /\ unselected = <<4, 3, 2>>
    /\ ordering = <<1, 2, 0>>

\* ---------------------------------------------- properties of tour_length
\* The distance of two points as the length whose square is dx^2 + dy^2.
Distance(a, b) ==
    LET d2 == (a[1] - b[1]) * (a[1] - b[1]) + (a[2] - b[2]) * (a[2] - b[2])
    IN  CHOOSE l \in {Len2(w, r) : w \in 0..d2, r \in 0..d2} :
            (l.whole = 0 \/ l.root2 = 0) /\ l.whole * l.whole + 2 * l.root2 * l.root2 = d2

RECURSIVE SumOfLengths(_)
SumOfLengths(ls) ==
    IF Len(ls) = 0 THEN Len2(0, 0) ELSE LenAdd(ls[Len(ls)], SumOfLengths(SubSeq(ls, 1, Len(ls) - 1)))

\* The points visited, in order.
Visited(pts, opt_order) ==
    IF opt_order[1] = "Some" THEN [i \in 1..Len(opt_order[2]) |-> pts[opt_order[2][i] + 1]]
    ELSE pts

ExpectedLength(pts, opt_order, cl) ==
    LET v == Visited(pts, opt_order)
        steps == [i \in 1..(Len(v) - 1) |-> Distance(v[i], v[i+1])]
    IN  IF cl THEN LenAdd(SumOfLengths(steps), Distance(v[Len(v)], v[1]))
        ELSE SumOfLengths(steps)

OrderInRange(pts, opt_order) ==
    opt_order[1] = "Some" =>
        /\ Len(opt_order[2]) > 0
        /\ \A i \in 1..Len(opt_order[2]) : opt_order[2][i] < Len(pts)

UnitPair == << <<0, 0>>, <<1, 0>> >>

\* C9: with at least 2 points and a non-empty in-range order the call returns
\* the sum of the distances of consecutive visited points, plus the way back
\* to the first when close; the three unit-distance cases give 2, 1 and 3;
\* with fewer than 2 points the call fails.
C9_LengthIsSumOfSteps ==
    pc # "len_call" =>
        /\ Len(points) < 2 => pc = "panic"
        /\ (Len(points) >= 2 /\ OrderInRange(points, order)) =>
              /\ pc = "len_done"
              /\ length = ExpectedLength(points, order, close)
        /\ (points = UnitPair /\ order = <<"None">> /\ close) => length = Len2(2, 0)
        /\ (points = UnitPair /\ order = <<"None">> /\ ~close) => length = Len2(1, 0)
        /\ (points = UnitPair /\ order = <<"Some", <<0, 1, 0, 1>> >> /\ ~close) =>
              length = Len2(3, 0)

\* A closed tour over three distinct corners, in an order of its own.
C9_Witness ==
    /\ pc = "len_done"
    /\ points = << <<0, 0>>, <<1, 0>>, <<1, 1>> >>
    /\ order = <<"Some", <<2, 0, 1>> >>
    /\ close
    /\ length = Len2(2, 1)

====
